---- MODULE Spec2Model ----
(***************************************************************************)
(* Image CDN backend: the Express request pipeline of server.js (upload    *)
(* middleware, validators of validation.middleware.js, route handlers of   *)
(* image.routes.js, ImageService, errorHandler) against an abstract        *)
(* storage provider.  Strings the code inspects character by character     *)
(* (file names, optimize flag, identifiers in the URL path) are tuples of  *)
(* one-character strings; all other strings are TLA+ strings.              *)
(***************************************************************************)
EXTENDS Integers, Sequences, FiniteSets, TLC

VARIABLES
  nodeEnv,   \* process.env.NODE_ENV
  store,     \* the public ids the provider holds
  pc,        \* where the request in hand is: idle, optimizing, gateway, responded
  req,       \* the request in hand
  calls,     \* the optimizer and gateway calls made for it, in order
  buffer,    \* uploadImage's buffer, written to the upload stream
  gwArg,     \* the arguments of the gateway call
  sharp,     \* how sharp behaved for this request
  resp,      \* the response sent
  prev,      \* the delete request answered just before, for the same identifier
  credentials, \* the provider credentials of the environment
  proc,      \* the server process: validating, testing, listening, exited
  limiter,   \* the rate limiter's store: hits per source in the current window
  walk,      \* a client following nextCursor through the listing
  flight,    \* the requests the server handles at the same time, one per slot
  ui         \* the state of the frontend's App component

vars == <<nodeEnv, store, pc, req, calls, buffer, gwArg, sharp, resp, prev,
          credentials, proc, limiter, walk, flight, ui>>

\* what the request pipeline leaves alone
aux == <<credentials, proc, limiter, walk, flight, ui>>

(***************************************************************************)
(* Bounds of the model.                                                    *)
(***************************************************************************)
\* sizes up to maxFileSize + MaxOver, lists up to 100 + MaxOver entries and
\* rateLimitMax + MaxOver requests of a source in a window
MaxOver == 1
\* how many of the optional upload fields one request carries at most
MaxFields == 1

(***************************************************************************)
(* JavaScript values.                                                      *)
(***************************************************************************)
\* the value undefined (a missing property)
Absent == "<undefined>"

\* template-literal interpolation `${x}`
Interpolate(x) == IF x = Absent THEN "undefined" ELSE x

UpperChars ==
  <<"A","B","C","D","E","F","G","H","I","J","K","L","M",
    "N","O","P","Q","R","S","T","U","V","W","X","Y","Z">>

LowerChars ==
  <<"a","b","c","d","e","f","g","h","i","j","k","l","m",
    "n","o","p","q","r","s","t","u","v","w","x","y","z">>

ToLowerChar(c) ==
  IF \E i \in 1..Len(UpperChars) : UpperChars[i] = c
  THEN LowerChars[CHOOSE i \in 1..Len(UpperChars) : UpperChars[i] = c]
  ELSE c

\* String.prototype.toLowerCase
ToLowerCase(s) == [i \in 1..Len(s) |-> ToLowerChar(s[i])]

\* s.split('.').pop(): the text after the last '.', the whole of s when it has none
RECURSIVE SplitPop(_)
SplitPop(s) ==
  IF s = <<>> THEN <<>>
  ELSE IF s[Len(s)] = "." THEN <<>>
  ELSE SplitPop(SubSeq(s, 1, Len(s) - 1)) \o <<s[Len(s)]>>

(***************************************************************************)
(* config/app.config.js (defaults, no environment overrides).              *)
(***************************************************************************)
maxFileSize == 10485760

allowedFormats ==
  << <<"j","p","g">>, <<"j","p","e","g">>, <<"p","n","g">>,
     <<"g","i","f">>, <<"w","e","b","p">>, <<"s","v","g">> >>

\* Array.prototype.includes
Includes(arr, x) == \E i \in 1..Len(arr) : arr[i] = x


(***************************************************************************)
(* HTTP responses.  A JSON response carries the body as a record; the      *)
(* upload middleware answers in plain text.                                *)
(***************************************************************************)
Json(status, body) == [status |-> status, type |-> "json", body |-> body]

Text(status, text) == [status |-> status, type |-> "text", body |-> [text |-> text]]

\* a middleware that calls next() answers nothing
CallsNext == [status |-> 0, type |-> "next", body |-> [text |-> ""]]

NoResp == [status |-> 0, type |-> "none", body |-> [text |-> ""]]

(***************************************************************************)
(* Requests.  A field of a form or query that the code reads as a string   *)
(* is a tuple of characters; Undefined is the missing field.               *)
(***************************************************************************)
Undefined == <<Absent>>

\* a byte buffer: the uploaded bytes, or what sharp made of them
Bytes(src) ==
  [src |-> src, out |-> "original", resize |-> FALSE, encoder |-> "none",
   width |-> 0, height |-> 0]

NoBuffer == Bytes(Absent)

NoFile == [kind |-> "none", name |-> <<>>, size |-> 0, mimetype |-> Absent, data |-> NoBuffer]

NoBody == [folder |-> Absent, publicId |-> Absent,
           tags |-> [kind |-> "absent", items |-> <<>>], optimize |-> Undefined]

NoQuery == [expression |-> Absent, maxResults |-> Absent, nextCursor |-> Absent]

NoReq == [op |-> "none", file |-> NoFile, body |-> NoBody, clientId |-> <<>>, id |-> <<>>,
          query |-> NoQuery, publicIds |-> [kind |-> "absent", runs |-> <<>>],
          method |-> Absent]

(***************************************************************************)
(* server.js: express-fileupload with limits.fileSize and abortOnLimit.    *)
(* A part larger than the limit makes the middleware close the connection  *)
(* with 413 and the library's responseOnLimit text; next() is not called.  *)
(***************************************************************************)
fileUpload(r) ==
  IF r.file.kind = "single" /\ r.file.size > maxFileSize
  THEN Text(413, "File size limit has been reached")
  ELSE CallsNext

(***************************************************************************)
(* middleware/validation.middleware.js                                     *)
(***************************************************************************)
\* validMimetypes with one entry too many
validMimetypesWithPdf ==
  <<"image/jpeg", "image/jpg", "image/png", "image/gif", "image/webp", "image/svg+xml",
    "application/pdf">>

validMimetypes ==
  <<"image/jpeg", "image/jpg", "image/png", "image/gif", "image/webp", "image/svg+xml">>

validateFileUpload(r) ==
  IF r.file.kind = "none"
  THEN Json(400, [success |-> FALSE,
                  error |-> "No image file provided. Please upload a file with the field name \"image\""])
  ELSE IF r.file.kind = "multi"
  \* req.files.image is an array: file.size is undefined (the comparison is false)
  \* and file.name.split throws a TypeError, caught by the catch block
  THEN Json(500, [success |-> FALSE, error |-> "File validation failed"])
  ELSE IF r.file.size > maxFileSize
  THEN Json(400, [success |-> FALSE,
                  error |-> "File size exceeds limit. Maximum size: "
                            \o ToString((maxFileSize \div 1024) \div 1024) \o "MB"])
  ELSE IF ~Includes(allowedFormats, ToLowerCase(SplitPop(r.file.name)))
  THEN Json(400, [success |-> FALSE,
                  error |-> "Invalid file format. Allowed formats: jpg, jpeg, png, gif, webp, svg"])
  ELSE IF ~Includes(validMimetypes, r.file.mimetype)
  THEN Json(400, [success |-> FALSE, error |-> "Invalid file type. Please upload an image file."])
  ELSE CallsNext

sTrue == <<"t","r","u","e">>

sFalse == <<"f","a","l","s","e">>

\* Joi.string(): a non-empty string
JoiString(v) == v # Absent /\ Len(v) > 0

\* Joi.boolean() on a form field: the strings 'true' and 'false' in any case
JoiBoolean(v) == ToLowerCase(v) \in {sTrue, sFalse}

\* Joi reports the first failing key of the schema, in the schema's order
validateUploadOptions(r) ==
  LET b == r.body IN
  IF b.folder # Absent /\ ~JoiString(b.folder)
  THEN Json(400, [success |-> FALSE, error |-> "\"folder\" is not allowed to be empty"])
  ELSE IF b.folder # Absent /\ Len(b.folder) > 100
  THEN Json(400, [success |-> FALSE,
                  error |-> "\"folder\" length must be less than or equal to 100 characters long"])
  ELSE IF b.publicId # Absent /\ ~JoiString(b.publicId)
  THEN Json(400, [success |-> FALSE, error |-> "\"publicId\" is not allowed to be empty"])
  ELSE IF b.publicId # Absent /\ Len(b.publicId) > 100
  THEN Json(400, [success |-> FALSE,
                  error |-> "\"publicId\" length must be less than or equal to 100 characters long"])
  ELSE IF b.tags.kind = "string" /\ ~JoiString(b.tags.items[1])
  THEN Json(400, [success |-> FALSE, error |-> "\"tags\" does not match any of the allowed types"])
  ELSE IF b.tags.kind = "array" /\ \E i \in 1..Len(b.tags.items) : ~JoiString(b.tags.items[i])
  THEN Json(400, [success |-> FALSE, error |-> "\"tags\" does not match any of the allowed types"])
  ELSE IF b.optimize # Undefined /\ ~JoiBoolean(b.optimize)
  THEN Json(400, [success |-> FALSE, error |-> "\"optimize\" must be a boolean"])
  ELSE CallsNext


\* validatePublicId: Joi.string().required() on the route parameter
validatePublicId(r) ==
  IF r.id = <<>>
  THEN Json(400, [success |-> FALSE, error |-> "Invalid public ID"])
  ELSE CallsNext

(***************************************************************************)
(* JavaScript errors and middleware/error.middleware.js                    *)
(***************************************************************************)
NoProviderError == [present |-> FALSE, message |-> Absent, http_code |-> 0]

\* new Error(message), new URIError(message)
Error(name, message) ==
  [name |-> name, message |-> message, statusCode |-> 0, error |-> NoProviderError]

\* what the provider's client rejects with: { error: { message, http_code } }
ProviderError(message, http_code) ==
  [name |-> Absent, message |-> Absent, statusCode |-> 0,
   error |-> [present |-> TRUE, message |-> message, http_code |-> http_code]]

NoError == Error(Absent, Absent)

notFoundHandler == Json(404, [success |-> FALSE, error |-> "Route not found"])

errorHandler(err, env) ==
  LET status0 == IF err.statusCode # 0 THEN err.statusCode ELSE 500
      message0 == IF err.message # Absent /\ err.message # "" THEN err.message
                  ELSE "Internal server error"
      status1 == IF err.name = "ValidationError" THEN 400 ELSE status0
      status2 == IF err.name = "UnauthorizedError" THEN 401 ELSE status1
      message2 == IF err.name = "UnauthorizedError" THEN "Unauthorized access" ELSE message0
      status3 == IF err.name = "MulterError" THEN 400 ELSE status2
      message3 == IF err.name = "MulterError" THEN "File upload error: " \o Interpolate(err.message)
                  ELSE message2
      cloudinaryError == err.error.present /\ err.error.message # Absent
      status4 == IF cloudinaryError
                 THEN (IF err.error.http_code # 0 THEN err.error.http_code ELSE 500)
                 ELSE status3
      message4 == IF cloudinaryError THEN err.error.message ELSE message3
  IN IF env = "development"
     THEN Json(status4, [success |-> FALSE, error |-> message4, stack |-> "Error: stack"])
     ELSE Json(status4, [success |-> FALSE, error |-> message4])


(***************************************************************************)
(* URI component coding (client SDK api.js, Express route parameters,      *)
(* route handlers).  Letters and digits are unreserved.                    *)
(***************************************************************************)
HexDigits ==
  {"0","1","2","3","4","5","6","7","8","9","A","B","C","D","E","F","a","b","c","d","e","f"}

EncodeChar(c) ==
  CASE c = "/" -> <<"%","2","F">>
    [] c = "%" -> <<"%","2","5">>
    [] OTHER -> <<c>>

RECURSIVE encodeURIComponent(_)
encodeURIComponent(s) ==
  IF s = <<>> THEN <<>> ELSE EncodeChar(Head(s)) \o encodeURIComponent(Tail(s))

\* the character of an escape %xy (the escapes that the identifiers in use produce)
EscapedChar(x, y) ==
  CASE <<x, y>> = <<"2","5">> -> "%"
    [] <<x, y>> \in {<<"2","F">>, <<"2","f">>} -> "/"
    [] <<x, y>> = <<"4","1">> -> "A"
    [] OTHER -> "?"

\* decodeURIComponent: [ok, value]; not ok is the URIError 'URI malformed'
RECURSIVE decodeURIComponent(_)
decodeURIComponent(s) ==
  IF s = <<>> THEN [ok |-> TRUE, value |-> <<>>]
  ELSE IF Head(s) # "%"
  THEN LET rest == decodeURIComponent(Tail(s))
       IN [ok |-> rest.ok, value |-> <<Head(s)>> \o rest.value]
  ELSE IF Len(s) >= 3 /\ s[2] \in HexDigits /\ s[3] \in HexDigits
  THEN LET rest == decodeURIComponent(SubSeq(s, 4, Len(s)))
       IN [ok |-> rest.ok, value |-> <<EscapedChar(s[2], s[3])>> \o rest.value]
  ELSE [ok |-> FALSE, value |-> <<>>]

\* api.js builds the path with encodeURIComponent; Express decodes the matched
\* path segment into req.params.publicId
RouteParam(clientId) == decodeURIComponent(encodeURIComponent(clientId)).value

(***************************************************************************)
(* The storage provider (Cloudinary), an external collaborator: the set of *)
(* stored public ids and the answers of its client.                        *)
(***************************************************************************)
ProviderIds == { <<"a">>, <<"f","/","a">> }

\* the id the provider gives to an uploaded asset: folder/name
UploadedIds == { <<"f","/","a">> }

Resolve(result) == [rejected |-> FALSE, result |-> result, err |-> NoError]

Reject(err) == [rejected |-> TRUE, result |-> [result |-> Absent], err |-> err]

\* a call that does not get an answer from the provider, or gets a refusal
GatewayFailures ==
  { Reject(Error("Error", "connect ECONNREFUSED")),
    Reject(ProviderError("Rate Limit Exceeded", 420)) }

\* cloudinary.api.resource(publicId)
ApiResource(publicId, st) ==
  IF publicId \in st
  THEN Resolve([public_id |-> publicId])
  ELSE Reject(ProviderError("Resource not found", 404))

\* cloudinary.uploader.destroy(publicId)
UploaderDestroy(publicId, st) ==
  IF publicId \in st THEN Resolve([result |-> "ok"]) ELSE Resolve([result |-> "not found"])


\* cloudinary.api.delete_resources(publicIds): the provider reports an outcome for
\* each identifier it processed and says whether it stopped early
ApiDeleteResources(processed, partial, st) ==
  Resolve([deleted |-> [i \in processed |-> IF i \in st THEN "deleted" ELSE "not_found"],
           partial |-> partial])

\* the stored ids in the provider's order
RECURSIVE InOrder(_)
InOrder(ids) ==
  IF ids = {} THEN <<>>
  ELSE LET first == CHOOSE i \in ids : \A j \in ids : Len(i) <= Len(j)
       IN <<first>> \o InOrder(ids \ {first})

\* the provider's cursor for the rest of a listing after its first k entries
Cursor(k) == "c" \o ToString(k)

Cursors == {Cursor(k) : k \in 0..Cardinality(ProviderIds)}

HasPrefix(id, prefix) ==
  Len(prefix) <= Len(id) /\ SubSeq(id, 1, Len(prefix)) = prefix

\* cloudinary.api.resources(queryOptions): the page of at most max_results
\* assets that starts where the cursor says, and a cursor for the rest if any
ApiResources(opts, st) ==
  IF opts.next_cursor # Absent /\ opts.next_cursor \notin Cursors
  THEN Reject(ProviderError("Invalid value for parameter next_cursor", 400))
  ELSE LET all == InOrder({i \in st : opts.prefix = Undefined \/ HasPrefix(i, opts.prefix)})
           offset == IF opts.next_cursor = Absent THEN 0
                     ELSE CHOOSE k \in 0..Cardinality(ProviderIds) : Cursor(k) = opts.next_cursor
           last == IF offset + opts.max_results < Len(all)
                   THEN offset + opts.max_results ELSE Len(all)
       IN Resolve([resources |-> SubSeq(all, offset + 1, last),
                   total_count |-> Len(all),
                   next_cursor |-> IF last < Len(all) THEN Cursor(last) ELSE Absent])

(***************************************************************************)
(* config/cloudinary.config.js and the start of server.js                  *)
(***************************************************************************)
\* a credential of the environment: unset, empty, the right one, a wrong one
CredentialValues == {Absent, "", "valid", "wrong"}

Credentials ==
  [cloud_name : CredentialValues, api_key : CredentialValues, api_secret : CredentialValues]

ValidCredentials == [cloud_name |-> "valid", api_key |-> "valid", api_secret |-> "valid"]

\* !x for a credential
Falsy(x) == x = Absent \/ x = ""

\* validateConfig: throws when a credential is missing
validateConfig(c) == Falsy(c.cloud_name) \/ Falsy(c.api_key) \/ Falsy(c.api_secret)

\* cloudinary.api.ping(): the provider answers ok to the right credentials only
ApiPing(c) ==
  IF c = ValidCredentials
  THEN {Resolve([status |-> "ok"])} \cup GatewayFailures
  ELSE {Reject(ProviderError("Invalid credentials", 401)),
        Reject(Error("Error", "connect ECONNREFUSED"))}

\* the process before anything has run, and once it listens
Starting == [state |-> "validating", connected |-> FALSE]

Listening(connected) == [state |-> "listening", connected |-> connected]

(***************************************************************************)
(* express-rate-limit on /api/ (server.js, config.rateLimit)               *)
(***************************************************************************)
rateLimitMax == 100

Sources == {"ip1", "ip2"}

\* hits: the store's count of a source's requests in its current window;
\* passed: how many of them the limiter handed on to the routes
NoHits == [hits |-> [s \in Sources |-> 0], passed |-> [s \in Sources |-> 0]]

\* a limiter that lets one request more through
limiterAdmitsOneMore(totalHits) == totalHits <= rateLimitMax + 1

\* the limiter calls next() unless the count, this request included, is over max
limiterAdmits(totalHits) == totalHits <= rateLimitMax

\* the limiter's answer to a request over the limit: status 429 and config message
tooManyRequests ==
  Json(429, [success |-> FALSE,
             error |-> "Too many requests from this IP, please try again later."])

\* maxResults: what the client asks for on every page; cursor: the nextCursor of
\* the last page; images: the ids received so far; largest: the longest page
NoWalk == [maxResults |-> Undefined, cursor |-> Absent, images |-> <<>>, largest |-> 0,
           done |-> FALSE]

(***************************************************************************)
(* sharp, an external library: what it reports and whether it succeeds on  *)
(* the given bytes is an input of the model.                               *)
(***************************************************************************)
maxDimension == 4096

Formats == {"jpeg", "png", "webp", "gif"}

Dimensions == { <<800, 600>>, <<5000, 3000>> }

SharpRuns ==
  { [metadata |-> FALSE, format |-> Absent, width |-> 0, height |-> 0, toBuffer |-> FALSE] }
  \cup
  { [metadata |-> TRUE, format |-> f, width |-> d[1], height |-> d[2], toBuffer |-> t] :
      f \in Formats, d \in Dimensions, t \in BOOLEAN }

NoSharp == [metadata |-> FALSE, format |-> "unused", width |-> 0, height |-> 0, toBuffer |-> FALSE]

Max(a, b) == IF a > b THEN a ELSE b

\* a / b rounded to the nearest integer, for positive a and b
Round(a, b) == (2 * a + b) \div (2 * b)

\* sharp's resize(box, box, {fit: 'inside', withoutEnlargement: true}): the larger
\* side shrinks to the box, the other side by the same factor, rounded to a pixel
resizeInside(w, h, box) ==
  IF w <= box /\ h <= box THEN <<w, h>>
  ELSE IF w > h THEN <<box, Max(1, Round(h * box, w))>>
  ELSE <<Max(1, Round(w * box, h)), box>>

\* formats sharp can detect, and sizes around the limit, for the optimizer alone
DetectedFormats == Formats \cup {"jpg", "tiff", "svg"}

WideDimensions ==
  Dimensions \cup { <<4096, 4096>>, <<4097, 100>>, <<100, 4097>>, <<3000, 5000>>,
                    <<8192, 8192>>, <<10000, 1>> }

WideSharpRuns ==
  { [metadata |-> FALSE, format |-> Absent, width |-> 0, height |-> 0, toBuffer |-> FALSE] }
  \cup
  { [metadata |-> TRUE, format |-> f, width |-> d[1], height |-> d[2], toBuffer |-> t] :
      f \in DetectedFormats, d \in WideDimensions, t \in BOOLEAN }

(***************************************************************************)
(* ImageService (services/image.service.js, second half of server.js)      *)
(***************************************************************************)
\* the resize condition with "and" for "or"
needsResizeBothSides(metadata) ==
  metadata.width > maxDimension /\ metadata.height > maxDimension

\* optimizeImage: resize if too large (max 4096px on the longest side)
needsResize(metadata) ==
  metadata.width > maxDimension \/ metadata.height > maxDimension

\* encoder settings that ignore the detected format
formatSettingsAlwaysJpeg(format) ==
  "jpeg{quality:85,progressive:true}"

\* optimizeImage: the encoder settings for the detected format
formatSettings(format) ==
  IF format = "jpeg" \/ format = "jpg" THEN "jpeg{quality:85,progressive:true}"
  ELSE IF format = "png" THEN "png{quality:85,compressionLevel:9}"
  ELSE IF format = "webp" THEN "webp{quality:85}"
  ELSE "none"

\* sharpInstance.toBuffer() of the pipeline optimizeImage has built
sharpToBuffer(buf, sh, resize, encoder) ==
  LET d == IF resize THEN resizeInside(sh.width, sh.height, maxDimension)
           ELSE <<sh.width, sh.height>>
  IN [src |-> buf.src, out |-> "sharp", resize |-> resize, encoder |-> encoder,
      width |-> d[1], height |-> d[2]]

\* optimizeImage whose catch block returns nothing
optimizeImageNoFallback(buf, mimetype, sh) ==
  IF mimetype = "image/svg+xml" THEN buf
  ELSE IF ~sh.metadata THEN NoBuffer
  ELSE IF sh.toBuffer
       THEN sharpToBuffer(buf, sh, needsResize(sh), formatSettings(sh.format))
       ELSE NoBuffer

optimizeImage(buf, mimetype, sh) ==
  IF mimetype = "image/svg+xml" THEN buf
  ELSE IF ~sh.metadata THEN buf   \* sharp(buffer) or metadata() throws: catch
  ELSE IF sh.toBuffer
       THEN sharpToBuffer(buf, sh, needsResize(sh), formatSettings(sh.format))
       ELSE buf                   \* toBuffer() throws: catch

getThumbnailUrl(publicId, format) ==
  [publicId |-> publicId, format |-> format,
   transformation |-> "w_200,h_200,c_fill/q_auto,f_auto"]

\* the part of uploadImage after the upload stream has answered
uploadImage(outcome) ==
  IF outcome.rejected
  THEN [threw |-> TRUE,
        err |-> Error("Error", "Image upload failed: " \o Interpolate(outcome.err.message)),
        value |-> [success |-> FALSE]]
  ELSE [threw |-> FALSE, err |-> NoError,
        value |-> [success |-> TRUE,
                   data |-> [publicId |-> outcome.result.public_id,
                             thumbnail |-> getThumbnailUrl(outcome.result.public_id, "png")]]]

\* the part of getImage after cloudinary.api.resource has answered
getImage(outcome) ==
  IF outcome.rejected
  THEN [threw |-> TRUE,
        err |-> IF outcome.err.error.present /\ outcome.err.error.http_code = 404
                THEN Error("Error", "Image not found")
                ELSE Error("Error", "Failed to retrieve image: " \o Interpolate(outcome.err.message)),
        value |-> [success |-> FALSE]]
  ELSE [threw |-> FALSE, err |-> NoError,
        value |-> [success |-> TRUE,
                   data |-> [publicId |-> outcome.result.public_id,
                             thumbnail |-> getThumbnailUrl(outcome.result.public_id, "png")]]]

\* the part of deleteImage after cloudinary.uploader.destroy has answered
deleteImage(publicId, outcome) ==
  IF outcome.rejected
  THEN [threw |-> TRUE,
        err |-> Error("Error", "Image deletion failed: " \o Interpolate(outcome.err.message)),
        value |-> [success |-> FALSE]]
  ELSE IF outcome.result.result = "ok" \/ outcome.result.result = "not found"
  THEN [threw |-> FALSE, err |-> NoError,
        value |-> [success |-> TRUE,
                   message |-> IF outcome.result.result = "ok"
                               THEN "Image deleted successfully" ELSE "Image not found",
                   publicId |-> publicId]]
  ELSE [threw |-> TRUE,
        err |-> Error("Error", "Image deletion failed: Deletion failed"),
        value |-> [success |-> FALSE]]

\* the part of searchImages after the search has answered
searchImages(outcome) ==
  IF outcome.rejected
  THEN [threw |-> TRUE,
        err |-> Error("Error", "Search failed: " \o Interpolate(outcome.err.message)),
        value |-> [success |-> FALSE]]
  ELSE [threw |-> FALSE, err |-> NoError,
        value |-> [success |-> TRUE,
                   data |-> [images |-> {[publicId |-> i, thumbnail |-> getThumbnailUrl(i, "png")] :
                                           i \in outcome.result.resources},
                             totalCount |-> outcome.result.total_count,
                             nextCursor |-> outcome.result.next_cursor]]]

\* the part of listImages after cloudinary.api.resources has answered
listImages(outcome) ==
  IF outcome.rejected
  THEN [threw |-> TRUE,
        err |-> Error("Error", "Failed to list images: " \o Interpolate(outcome.err.message)),
        value |-> [success |-> FALSE]]
  ELSE [threw |-> FALSE, err |-> NoError,
        value |-> [success |-> TRUE,
                   data |-> [images |-> [i \in 1..Len(outcome.result.resources) |->
                                           [publicId |-> outcome.result.resources[i],
                                            thumbnail |-> getThumbnailUrl(outcome.result.resources[i], "png")]],
                             totalCount |-> outcome.result.total_count,
                             nextCursor |-> outcome.result.next_cursor]]]

Resources == {"credits", "storage", "bandwidth", "transformations"}

\* usage.<resource>?.<field> || 0
OrZero(usage, resource, field) ==
  IF usage[resource].present THEN usage[resource][field] ELSE 0

\* the part of getStats after cloudinary.api.usage has answered
getStats(outcome) ==
  IF outcome.rejected
  THEN [threw |-> TRUE,
        err |-> Error("Error", "Failed to get statistics: " \o Interpolate(outcome.err.message)),
        value |-> [success |-> FALSE]]
  ELSE LET usage == outcome.result IN
       [threw |-> FALSE, err |-> NoError,
        value |-> [success |-> TRUE,
                   data |-> [used |-> [credits |-> OrZero(usage, "credits", "used"),
                                       storage |-> OrZero(usage, "storage", "used"),
                                       bandwidth |-> OrZero(usage, "bandwidth", "used"),
                                       transformations |-> OrZero(usage, "transformations", "used")],
                             limit |-> [credits |-> OrZero(usage, "credits", "limit"),
                                        storage |-> OrZero(usage, "storage", "limit"),
                                        bandwidth |-> OrZero(usage, "bandwidth", "limit"),
                                        transformations |-> OrZero(usage, "transformations", "limit")],
                             percentage |-> [credits |-> OrZero(usage, "credits", "used_percent"),
                                             storage |-> OrZero(usage, "storage", "used_percent"),
                                             bandwidth |-> OrZero(usage, "bandwidth", "used_percent")]]]]

\* config/cloudinary.config.js testConnection: true when the ping resolves
testConnection(outcome) == ~outcome.rejected

\* routes/health.routes.js GET /api/health after testConnection has answered
health(cloudinaryConnected) ==
  Json(IF cloudinaryConnected THEN 200 ELSE 503,
       [success |-> TRUE, status |-> "OK",
        services |-> [api |-> "OK",
                      cloudinary |-> IF cloudinaryConnected THEN "OK" ELSE "ERROR"]])

\* bulkDelete treating a partial answer as a failure
bulkDeleteAllOrNothing(outcome) ==
  IF outcome.rejected \/ outcome.result.partial
  THEN [threw |-> TRUE,
        err |-> Error("Error", "Bulk deletion failed: " \o Interpolate(outcome.err.message)),
        value |-> [success |-> FALSE]]
  ELSE [threw |-> FALSE, err |-> NoError,
        value |-> [success |-> TRUE,
                   data |-> [deleted |-> outcome.result.deleted,
                             deletedCount |-> Cardinality(DOMAIN outcome.result.deleted),
                             partial |-> outcome.result.partial]]]

\* the part of bulkDelete after cloudinary.api.delete_resources has answered
bulkDelete(outcome) ==
  IF outcome.rejected
  THEN [threw |-> TRUE,
        err |-> Error("Error", "Bulk deletion failed: " \o Interpolate(outcome.err.message)),
        value |-> [success |-> FALSE]]
  ELSE [threw |-> FALSE, err |-> NoError,
        value |-> [success |-> TRUE,
                   data |-> [deleted |-> outcome.result.deleted,
                             deletedCount |-> Cardinality(DOMAIN outcome.result.deleted),
                             partial |-> outcome.result.partial]]]

\* asyncHandler: the handler's result is sent with `status`, a rejection goes to
\* next(err), that is to errorHandler
asyncHandler(status, ret, env) ==
  IF ret.threw THEN errorHandler(ret.err, env) ELSE Json(status, ret.value)


(***************************************************************************)
(* Validators of the query and of the bulk-delete body.                    *)
(***************************************************************************)
Digits == <<"0","1","2","3","4","5","6","7","8","9">>

IsDigit(c) == \E i \in 1..10 : Digits[i] = c

DigitValue(c) == (CHOOSE i \in 1..10 : Digits[i] = c) - 1

\* the integer a string of digits denotes
RECURSIVE DigitsValue(_)
DigitsValue(s) ==
  IF s = <<>> THEN 0
  ELSE 10 * DigitsValue(SubSeq(s, 1, Len(s) - 1)) + DigitValue(s[Len(s)])

AllDigits(s) == s # <<>> /\ \A i \in 1..Len(s) : IsDigit(s[i])

\* the position of the exponent mark of a number string, 0 when it has none
ExponentMark(s) ==
  IF \E i \in 1..Len(s) : s[i] \in {"e", "E"}
  THEN CHOOSE i \in 1..Len(s) : s[i] \in {"e", "E"} /\ \A j \in 1..(i - 1) : s[j] \notin {"e", "E"}
  ELSE 0

RECURSIVE Pow10(_)
Pow10(n) == IF n = 0 THEN 1 ELSE 10 * Pow10(n - 1)

\* Joi.number() converting a query string: digits, optionally followed by an
\* exponent e<digits> or e-<digits> (the number strings in use have no sign, no
\* fraction and no blanks).  [ok, integer, value]
JoiNumber(v) ==
  LET e == ExponentMark(v)
      mantissa == IF e = 0 THEN v ELSE SubSeq(v, 1, e - 1)
      exponent == IF e = 0 THEN <<"0">> ELSE SubSeq(v, e + 1, Len(v))
      negative == exponent # <<>> /\ Head(exponent) = "-"
      expDigits == IF negative THEN Tail(exponent) ELSE exponent
      NotANumber == [ok |-> FALSE, integer |-> FALSE, value |-> 0]
  IN IF ~AllDigits(mantissa) \/ ~AllDigits(expDigits) THEN NotANumber
     ELSE LET m == DigitsValue(mantissa)
              p == Pow10(DigitsValue(expDigits))
          IN IF negative
             THEN [ok |-> TRUE, integer |-> m % p = 0, value |-> m \div p]
             ELSE [ok |-> TRUE, integer |-> TRUE, value |-> m * p]

\* Joi.number().integer().min(1).max(500) on a query string
JoiMaxResults(v) ==
  JoiNumber(v).ok /\ JoiNumber(v).integer /\ JoiNumber(v).value >= 1 /\ JoiNumber(v).value <= 500

\* the digits a string starts with
RECURSIVE LeadingDigits(_)
LeadingDigits(s) ==
  IF s = <<>> \/ ~IsDigit(Head(s)) THEN <<>> ELSE <<Head(s)>> \o LeadingDigits(Tail(s))

\* parseInt(v) || 30: parseInt reads the leading digits and stops at anything
\* else; NaN (no leading digit, or undefined) and 0 are falsy
ParseIntOr30(v) ==
  IF LeadingDigits(v) # <<>> /\ DigitsValue(LeadingDigits(v)) # 0
  THEN DigitsValue(LeadingDigits(v))
  ELSE 30

Min(a, b) == IF a < b THEN a ELSE b

validateListQuery(r) ==
  LET q == r.query IN
  IF q.maxResults # Undefined /\ ~JoiMaxResults(q.maxResults)
  THEN Json(400, [success |-> FALSE, error |-> "\"maxResults\" must be an integer between 1 and 500"])
  ELSE IF q.nextCursor # Absent /\ ~JoiString(q.nextCursor)
  THEN Json(400, [success |-> FALSE, error |-> "\"nextCursor\" is not allowed to be empty"])
  ELSE IF q.prefix = <<>>
  THEN Json(400, [success |-> FALSE, error |-> "\"prefix\" is not allowed to be empty"])
  ELSE IF q.tags # Undefined /\ ~JoiBoolean(q.tags)
  THEN Json(400, [success |-> FALSE, error |-> "\"tags\" must be a boolean"])
  ELSE CallsNext

\* validateSearchQuery with expression: Joi.string().allow('').optional()
validateSearchQueryOptionalExpression(r) ==
  LET q == r.query IN
  IF q.maxResults # Undefined /\ ~JoiMaxResults(q.maxResults)
  THEN Json(400, [success |-> FALSE, error |-> "\"maxResults\" must be an integer between 1 and 500"])
  ELSE IF q.nextCursor # Absent /\ ~JoiString(q.nextCursor)
  THEN Json(400, [success |-> FALSE, error |-> "\"nextCursor\" is not allowed to be empty"])
  ELSE CallsNext

validateSearchQuery(r) ==
  LET q == r.query IN
  IF q.expression = Absent
  THEN Json(400, [success |-> FALSE, error |-> "\"expression\" is required"])
  ELSE IF ~JoiString(q.expression)
  THEN Json(400, [success |-> FALSE, error |-> "\"expression\" is not allowed to be empty"])
  ELSE IF q.maxResults # Undefined /\ ~JoiMaxResults(q.maxResults)
  THEN Json(400, [success |-> FALSE, error |-> "\"maxResults\" must be an integer between 1 and 500"])
  ELSE IF q.nextCursor # Absent /\ ~JoiString(q.nextCursor)
  THEN Json(400, [success |-> FALSE, error |-> "\"nextCursor\" is not allowed to be empty"])
  ELSE CallsNext

\* A JSON array is given by its runs: <<[entry |-> e, count |-> n], ...>> is the
\* array that repeats each entry count times, in order.
RECURSIVE ArrayLength(_)
ArrayLength(runs) ==
  IF runs = <<>> THEN 0 ELSE Head(runs).count + ArrayLength(Tail(runs))

ArrayEntries(runs) == {runs[i].entry : i \in 1..Len(runs)}

maxBulkIds == 100

\* validateBulkDelete without .max(100)
validateBulkDeleteNoMax(r) ==
  LET p == r.publicIds IN
  IF p.kind = "absent"
  THEN Json(400, [success |-> FALSE, error |-> "\"publicIds\" is required"])
  ELSE IF \E e \in ArrayEntries(p.runs) : e.type # "string" \/ e.value = <<>>
  THEN Json(400, [success |-> FALSE, error |-> "\"publicIds[i]\" must be a string"])
  ELSE IF ArrayLength(p.runs) < 1
  THEN Json(400, [success |-> FALSE, error |-> "\"publicIds\" must contain at least 1 items"])
  ELSE CallsNext

validateBulkDelete(r) ==
  LET p == r.publicIds IN
  IF p.kind = "absent"
  THEN Json(400, [success |-> FALSE, error |-> "\"publicIds\" is required"])
  ELSE IF \E e \in ArrayEntries(p.runs) : e.type # "string" \/ e.value = <<>>
  THEN Json(400, [success |-> FALSE, error |-> "\"publicIds[i]\" must be a string"])
  ELSE IF ArrayLength(p.runs) < 1
  THEN Json(400, [success |-> FALSE, error |-> "\"publicIds\" must contain at least 1 items"])
  ELSE IF ArrayLength(p.runs) > maxBulkIds
  THEN Json(400, [success |-> FALSE,
                  error |-> "\"publicIds\" must contain less than or equal to 100 items"])
  ELSE CallsNext

(***************************************************************************)
(* The requests the model sends.                                           *)
(***************************************************************************)
FileNames == { <<"a",".","P","N","G">>, <<"p","n","g">>, <<"a",".","e","x","e">> }

Mimetypes ==
  { "image/jpeg", "image/jpg", "image/png", "image/gif", "image/webp", "image/svg+xml",
    "application/pdf" }

FileSizes == {maxFileSize} \cup {maxFileSize + k : k \in 1..MaxOver}

X10 == "xxxxxxxxxx"

X101 == X10 \o X10 \o X10 \o X10 \o X10 \o X10 \o X10 \o X10 \o X10 \o X10 \o "x"

Files ==
  { NoFile,
    [kind |-> "multi", name |-> <<>>, size |-> 0, mimetype |-> Absent, data |-> NoBuffer] }
  \cup
  { [kind |-> "single", name |-> n, size |-> z, mimetype |-> m, data |-> Bytes("upload")] :
      n \in FileNames, z \in FileSizes, m \in Mimetypes }

OptimizeFields ==
  { Undefined, sTrue, sFalse, <<"T","R","U","E">>, <<"F","A","L","S","E">>, <<"n","o">> }

TagFields ==
  { [kind |-> "absent", items |-> <<>>], [kind |-> "string", items |-> <<"t">>] }

FieldsPresent(b) ==
  Cardinality({f \in {"folder", "publicId"} : b[f] # Absent})
  + (IF b.tags.kind # "absent" THEN 1 ELSE 0)
  + (IF b.optimize # Undefined THEN 1 ELSE 0)

Bodies ==
  { b \in [folder : {Absent, "gallery", X101}, publicId : {Absent, "pid"},
           tags : TagFields, optimize : OptimizeFields] : FieldsPresent(b) <= MaxFields }

\* identifiers a client asks for
ClientIds == ProviderIds \cup { <<"5","%">>, <<"%","4","1">> }

\* maxResults as the query string carries it
MaxResultsFields ==
  { Undefined, <<"5","0">>, <<"0">>, <<"5","0","1">>, <<"a">>,
    <<"1","e","2">>, <<"5","0","e","-","1">>, <<"5","e","-","1">> }

Queries ==
  [expression : {Absent, "", "tags=featured"},
   maxResults : MaxResultsFields,
   nextCursor : {Absent, "c1"}]

ListQueries ==
  [maxResults : MaxResultsFields, nextCursor : {Absent, "c1", "zz"},
   prefix : {Undefined, <<>>, <<"f","/">>}, tags : {Undefined, sTrue}]

\* what the provider's usage report says of one resource, when it says anything
Omitted == [present |-> FALSE, used |-> 0, limit |-> 0, used_percent |-> 0]

Reported == [present |-> TRUE, used |-> 7, limit |-> 10, used_percent |-> 70]

UsageReports == [Resources -> {Omitted, Reported}]

BulkEntries ==
  { [type |-> "string", value |-> <<"a">>], [type |-> "string", value |-> <<"f","/","a">>],
    [type |-> "number", value |-> <<"7">>] }

BulkCounts == {1, 2, maxBulkIds} \cup {maxBulkIds + k : k \in 1..MaxOver}

BulkRuns == [entry : BulkEntries, count : BulkCounts]

BulkBodies ==
  { [kind |-> "absent", runs |-> <<>>], [kind |-> "array", runs |-> <<>>] }
  \cup { [kind |-> "array", runs |-> <<r>>] : r \in BulkRuns }
  \cup { [kind |-> "array", runs |-> <<r1, r2>>] : r1 \in BulkRuns, r2 \in BulkRuns }


\* a slot of the server with no request in it
NoSlot == [pc |-> "idle", source |-> Absent, req |-> NoReq, publicId |-> <<>>,
           answer |-> [rejected |-> FALSE, result |-> [result |-> Absent], err |-> NoError],
           others |-> {}, resp |-> NoResp]

Slots == {1, 2}

NoFlight == [slot \in Slots |-> NoSlot]

\* App.jsx useState: images [], loading true, nextCursor null, hasMore true;
\* request: the list request in flight and the cursor it was sent with
Null == "<null>"

NoRequest == [inFlight |-> FALSE, cursor |-> Null]

NoUi == [mounted |-> FALSE, images |-> <<>>, loading |-> TRUE, nextCursor |-> Null,
         hasMore |-> TRUE, request |-> NoRequest, deleting |-> {}]

(***************************************************************************)
(* The state machine: one request in hand at a time, from its arrival to   *)
(* its response; the awaits of the handlers are the steps.                 *)
(***************************************************************************)
NoArg == [fn |-> "none"]

NoPrev == [op |-> "none", id |-> <<>>, status |-> 0, message |-> Absent, rejected |-> FALSE]

\* an entry of the call log: the function called, and its answer once it has one
Call(fn) == [fn |-> fn, outcome |-> "pending", answer |-> Resolve([result |-> Absent])]

\* the last call of the log has returned
Returned(log, outcome) ==
  [log EXCEPT ![Len(log)].outcome = IF outcome.rejected THEN "rejected" ELSE "resolved",
              ![Len(log)].answer = outcome]

Init ==
  /\ nodeEnv \in {"development", "production"}
  /\ store \in SUBSET ProviderIds
  /\ pc = "idle"
  /\ req = NoReq
  /\ calls = <<>>
  /\ buffer = NoBuffer
  /\ gwArg = NoArg
  /\ sharp = NoSharp
  /\ resp = NoResp
  /\ prev = NoPrev
  /\ credentials = ValidCredentials
  /\ proc = Listening(TRUE)
  /\ limiter = NoHits
  /\ walk = NoWalk
  /\ flight = NoFlight
  /\ ui = NoUi

\* a validator or middleware answered: nothing else runs
Answer(r, answer) ==
  /\ req' = r
  /\ resp' = answer
  /\ pc' = "responded"
  /\ UNCHANGED <<calls, buffer, gwArg, sharp>>

\* a rejection thrown by the handler before any call: next(err)
Fail(r, err) == Answer(r, errorHandler(err, nodeEnv))

\* routes/image.routes.js POST /upload: the options handed to uploadImage
UploadOptions(b) ==
  [folder |-> b.folder,
   publicId |-> b.publicId,
   tags |-> IF b.tags.kind = "absent" THEN <<>> ELSE b.tags.items,
   optimize |-> b.optimize # sFalse]

\* the options uploadImage gives to cloudinary.uploader.upload_stream
UploadStreamOptions(o) ==
  [fn |-> "cloudinary.uploader.upload_stream",
   folder |-> IF o.folder # Absent THEN o.folder ELSE "uploads",
   public_id |-> o.publicId,
   tags |-> o.tags]

\* POST /upload without validateUploadOptions in its middleware chain
PostUploadUnvalidated(file, body) ==
  /\ pc = "idle"
  /\ LET r == [NoReq EXCEPT !.op = "upload", !.file = file, !.body = body]
         o == UploadOptions(body)
     IN IF fileUpload(r).type # "next" THEN Answer(r, fileUpload(r))
        ELSE IF validateFileUpload(r).type # "next" THEN Answer(r, validateFileUpload(r))
        ELSE /\ req' = r
             /\ resp' = NoResp
             /\ sharp' = NoSharp
             /\ gwArg' = UploadStreamOptions(o)
             /\ IF o.optimize # FALSE
                THEN /\ pc' = "optimizing"
                     /\ calls' = <<Call("optimizeImage")>>
                     /\ buffer' = file.data
                ELSE /\ pc' = "gateway"
                     /\ calls' = <<Call("cloudinary.uploader.upload_stream")>>
                     /\ buffer' = file.data
  /\ prev' = NoPrev
  /\ UNCHANGED <<nodeEnv, store>>

\* POST /api/images/upload up to the first await of uploadImage
PostUpload(file, body) ==
  /\ pc = "idle"
  /\ LET r == [NoReq EXCEPT !.op = "upload", !.file = file, !.body = body]
         o == UploadOptions(body)
     IN IF fileUpload(r).type # "next" THEN Answer(r, fileUpload(r))
        ELSE IF validateFileUpload(r).type # "next" THEN Answer(r, validateFileUpload(r))
        ELSE IF validateUploadOptions(r).type # "next" THEN Answer(r, validateUploadOptions(r))
        ELSE /\ req' = r
             /\ resp' = NoResp
             /\ sharp' = NoSharp
             /\ gwArg' = UploadStreamOptions(o)
             /\ IF o.optimize # FALSE
                THEN /\ pc' = "optimizing"
                     /\ calls' = <<Call("optimizeImage")>>
                     /\ buffer' = file.data
                ELSE /\ pc' = "gateway"
                     /\ calls' = <<Call("cloudinary.uploader.upload_stream")>>
                     /\ buffer' = file.data
  /\ prev' = NoPrev
  /\ UNCHANGED <<nodeEnv, store>>

\* optimizeImage returns; uploadImage writes the buffer to the upload stream
OptimizerReturns ==
  /\ pc = "optimizing"
  /\ \E sh \in IF req.file.mimetype = "image/svg+xml" THEN {NoSharp} ELSE SharpRuns :
       /\ sharp' = sh
       /\ buffer' = optimizeImage(req.file.data, req.file.mimetype, sh)
  /\ calls' = Append(Returned(calls, Resolve([result |-> "buffer"])),
                     Call("cloudinary.uploader.upload_stream"))
  /\ pc' = "gateway"
  /\ UNCHANGED <<nodeEnv, store, req, gwArg, resp, prev>>

\* a handler that calls the gateway again, up to three times, when the call fails
RespondRetrying(status, ret, outcome) ==
  IF outcome.rejected /\ Len(calls) < 3
  THEN /\ calls' = Append(Returned(calls, outcome), Call(calls[Len(calls)].fn))
       /\ UNCHANGED <<nodeEnv, pc, req, buffer, gwArg, sharp, resp, prev>>
  ELSE /\ resp' = asyncHandler(status, ret, nodeEnv)
       /\ calls' = Returned(calls, outcome)
       /\ pc' = "responded"
       /\ UNCHANGED <<nodeEnv, req, buffer, gwArg, sharp, prev>>

\* a handler whose rejection is not passed to next(): nothing is sent
RespondWithoutCatch(status, ret, outcome) ==
  /\ resp' = IF ret.threw THEN NoResp ELSE Json(status, ret.value)
  /\ calls' = Returned(calls, outcome)
  /\ pc' = IF ret.threw THEN "hung" ELSE "responded"
  /\ UNCHANGED <<nodeEnv, req, buffer, gwArg, sharp, prev>>

\* the response of a handler whose gateway call has answered
Respond(status, ret, outcome) ==
  /\ resp' = asyncHandler(status, ret, nodeEnv)
  /\ calls' = Returned(calls, outcome)
  /\ pc' = "responded"
  /\ UNCHANGED <<nodeEnv, req, buffer, gwArg, sharp, prev>>

\* the upload stream answers: the provider stores the asset under some id, or fails
UploadStreamReturns ==
  /\ pc = "gateway"
  /\ req.op = "upload"
  /\ \E outcome \in GatewayFailures \cup {Resolve([public_id |-> i]) : i \in UploadedIds} :
       /\ store' = IF outcome.rejected THEN store ELSE store \cup {outcome.result.public_id}
       /\ Respond(201, uploadImage(outcome), outcome)


\* a request for /api/images/:publicId from the client SDK, up to the gateway call
ByPublicId(op, fn, clientId) ==
  /\ pc = "idle"
  /\ LET r == [NoReq EXCEPT !.op = op, !.clientId = clientId, !.id = RouteParam(clientId)]
         publicId == decodeURIComponent(r.id)
     IN IF validatePublicId(r).type # "next" THEN Answer(r, validatePublicId(r))
        ELSE IF ~publicId.ok THEN Fail(r, Error("URIError", "URI malformed"))
        ELSE /\ req' = r
             /\ resp' = NoResp
             /\ gwArg' = [fn |-> fn, publicId |-> publicId.value]
             /\ calls' = <<Call(fn)>>
             /\ pc' = "gateway"
             /\ UNCHANGED <<buffer, sharp>>
  /\ prev' = IF op = "delete" /\ prev.op = "delete" /\ prev.id = clientId THEN prev ELSE NoPrev
  /\ UNCHANGED <<nodeEnv, store>>

\* GET /api/images/:publicId
GetImage(clientId) == ByPublicId("get", "cloudinary.api.resource", clientId)

\* DELETE /api/images/:publicId
DeleteImage(clientId) == ByPublicId("delete", "cloudinary.uploader.destroy", clientId)

\* cloudinary.api.resource answers
ApiResourceReturns ==
  /\ pc = "gateway"
  /\ req.op = "get"
  /\ \E outcome \in GatewayFailures \cup {ApiResource(gwArg.publicId, store)} :
       /\ store' = store
       /\ Respond(200, getImage(outcome), outcome)

\* cloudinary.uploader.destroy answers
DestroyReturns ==
  /\ pc = "gateway"
  /\ req.op = "delete"
  /\ \E outcome \in GatewayFailures \cup {UploaderDestroy(gwArg.publicId, store)} :
       /\ store' = IF outcome.rejected THEN store ELSE store \ {gwArg.publicId}
       /\ Respond(200, deleteImage(gwArg.publicId, outcome), outcome)

\* GET /api/images/search/query up to the gateway call
SearchQuery(query) ==
  /\ pc = "idle"
  /\ LET r == [NoReq EXCEPT !.op = "search", !.query = query]
         maxResults == ParseIntOr30(query.maxResults)
     IN IF validateSearchQuery(r).type # "next" THEN Answer(r, validateSearchQuery(r))
        ELSE IF query.expression = Absent \/ query.expression = ""
        THEN Fail(r, Error("Error", "Search failed: Search expression is required"))
        ELSE /\ req' = r
             /\ resp' = NoResp
             /\ gwArg' = [fn |-> "cloudinary.search.execute",
                          expression |-> query.expression,
                          max_results |-> Min(maxResults, 500),
                          next_cursor |-> query.nextCursor]
             /\ calls' = <<Call("cloudinary.search.execute")>>
             /\ pc' = "gateway"
             /\ UNCHANGED <<buffer, sharp>>
  /\ prev' = NoPrev
  /\ UNCHANGED <<nodeEnv, store>>

\* the search answers with some of the stored assets
SearchReturns ==
  /\ pc = "gateway"
  /\ req.op = "search"
  /\ \E outcome \in GatewayFailures
       \cup { Resolve([resources |-> rs, total_count |-> Cardinality(rs), next_cursor |-> c]) :
                rs \in SUBSET store, c \in {Absent, "c2"} } :
       /\ store' = store
       /\ Respond(200, searchImages(outcome), outcome)

\* POST /api/images/bulk-delete up to the gateway call
BulkDelete(publicIds) ==
  /\ pc = "idle"
  /\ LET r == [NoReq EXCEPT !.op = "bulkDelete", !.publicIds = publicIds]
     IN IF validateBulkDelete(r).type # "next" THEN Answer(r, validateBulkDelete(r))
        ELSE IF publicIds.kind # "array" \/ ArrayLength(publicIds.runs) = 0
        THEN Fail(r, Error("Error", "Bulk deletion failed: Invalid public IDs array"))
        ELSE /\ req' = r
             /\ resp' = NoResp
             /\ gwArg' = [fn |-> "cloudinary.api.delete_resources", publicIds |-> publicIds.runs]
             /\ calls' = <<Call("cloudinary.api.delete_resources")>>
             /\ pc' = "gateway"
             /\ UNCHANGED <<buffer, sharp>>
  /\ prev' = NoPrev
  /\ UNCHANGED <<nodeEnv, store>>

\* the identifiers of a list of string entries
RequestedIds(runs) == {e.value : e \in ArrayEntries(runs)}

\* cloudinary.api.delete_resources answers
DeleteResourcesReturns ==
  /\ pc = "gateway"
  /\ req.op = "bulkDelete"
  /\ \E outcome \in GatewayFailures
       \cup { ApiDeleteResources(processed, partial, store) :
                processed \in SUBSET RequestedIds(gwArg.publicIds), partial \in BOOLEAN } :
       /\ store' = IF outcome.rejected THEN store ELSE store \ DOMAIN outcome.result.deleted
       /\ Respond(200, bulkDelete(outcome), outcome)

\* GET /api/images up to the gateway call
ListImages(query) ==
  /\ pc = "idle"
  /\ LET r == [NoReq EXCEPT !.op = "list", !.query = query]
         options == [maxResults |-> ParseIntOr30(query.maxResults),
                     nextCursor |-> query.nextCursor,
                     prefix |-> query.prefix,
                     tags |-> query.tags = sTrue]
     IN IF validateListQuery(r).type # "next" THEN Answer(r, validateListQuery(r))
        ELSE /\ req' = r
             /\ resp' = NoResp
             /\ gwArg' = [fn |-> "cloudinary.api.resources",
                          max_results |-> Min(options.maxResults, 500),
                          next_cursor |-> IF options.nextCursor # "" THEN options.nextCursor ELSE Absent,
                          prefix |-> IF options.prefix # <<>> THEN options.prefix ELSE Undefined,
                          tags |-> options.tags]
             /\ calls' = <<Call("cloudinary.api.resources")>>
             /\ pc' = "gateway"
             /\ UNCHANGED <<buffer, sharp>>
  /\ prev' = NoPrev
  /\ UNCHANGED <<nodeEnv, store>>

\* cloudinary.api.resources answers
ListReturns ==
  /\ pc = "gateway"
  /\ req.op = "list"
  /\ \E outcome \in GatewayFailures \cup {ApiResources(gwArg, store)} :
       /\ store' = store
       /\ Respond(200, listImages(outcome), outcome)

\* GET /api/images/stats/usage up to the gateway call
GetStats ==
  /\ pc = "idle"
  /\ req' = [NoReq EXCEPT !.op = "stats"]
  /\ resp' = NoResp
  /\ gwArg' = [fn |-> "cloudinary.api.usage"]
  /\ calls' = <<Call("cloudinary.api.usage")>>
  /\ pc' = "gateway"
  /\ prev' = NoPrev
  /\ UNCHANGED <<nodeEnv, store, buffer, sharp>>

\* cloudinary.api.usage answers
UsageReturns ==
  /\ pc = "gateway"
  /\ req.op = "stats"
  /\ \E outcome \in GatewayFailures \cup {Resolve(u) : u \in UsageReports} :
       /\ store' = store
       /\ Respond(200, getStats(outcome), outcome)

\* GET /api/health up to the ping
GetHealth ==
  /\ pc = "idle"
  /\ req' = [NoReq EXCEPT !.op = "health"]
  /\ resp' = NoResp
  /\ gwArg' = [fn |-> "cloudinary.api.ping"]
  /\ calls' = <<Call("cloudinary.api.ping")>>
  /\ pc' = "gateway"
  /\ prev' = NoPrev
  /\ UNCHANGED <<nodeEnv, store, buffer, sharp>>

\* cloudinary.api.ping answers
PingReturns ==
  /\ pc = "gateway"
  /\ req.op = "health"
  /\ \E outcome \in ApiPing(credentials) :
       /\ resp' = health(testConnection(outcome))
       /\ calls' = Returned(calls, outcome)
       /\ pc' = "responded"
       /\ UNCHANGED <<nodeEnv, store, req, buffer, gwArg, sharp, prev>>

Methods == {"GET", "POST", "DELETE"}

\* res.sendFile(index.html) of the production catch-all: the file is sent, or,
\* when the frontend build is missing, send's ENOENT error goes to errorHandler
sendFile(dist, env) ==
  IF dist
  THEN [status |-> 200, type |-> "file", body |-> [text |-> "frontend/dist/index.html"]]
  ELSE errorHandler([Error("NotFoundError", "ENOENT: no such file or directory")
                       EXCEPT !.statusCode = 404], env)

\* a request under /api for a path no route matches: in production a GET is
\* taken by app.get('*'), everything else reaches notFoundHandler
NotFound(method, dist) ==
  /\ pc = "idle"
  /\ Answer([NoReq EXCEPT !.op = "unknown", !.method = method],
            IF nodeEnv = "production" /\ method = "GET"
            THEN sendFile(dist, nodeEnv)
            ELSE notFoundHandler)
  /\ prev' = NoPrev
  /\ UNCHANGED <<nodeEnv, store>>

\* the response has been sent: the request is over
Finish ==
  /\ pc = "responded"
  /\ prev' = IF req.op = "delete"
             THEN [op |-> "delete", id |-> req.clientId, status |-> resp.status,
                   message |-> IF "message" \in DOMAIN resp.body THEN resp.body.message ELSE Absent,
                   rejected |-> calls # <<>> /\ calls[Len(calls)].outcome = "rejected"]
             ELSE NoPrev
  /\ pc' = "idle"
  /\ req' = NoReq
  /\ calls' = <<>>
  /\ buffer' = NoBuffer
  /\ gwArg' = NoArg
  /\ sharp' = NoSharp
  /\ resp' = NoResp
  /\ UNCHANGED <<nodeEnv, store>>

Next ==
  \/ (\E file \in Files, body \in Bodies : PostUpload(file, body)) /\ UNCHANGED aux
  \/ OptimizerReturns /\ UNCHANGED aux
  \/ UploadStreamReturns /\ UNCHANGED aux
  \/ (\E clientId \in ClientIds : GetImage(clientId)) /\ UNCHANGED aux
  \/ ApiResourceReturns /\ UNCHANGED aux
  \/ (\E clientId \in ClientIds : DeleteImage(clientId)) /\ UNCHANGED aux
  \/ DestroyReturns /\ UNCHANGED aux
  \/ (\E query \in Queries : SearchQuery(query)) /\ UNCHANGED aux
  \/ SearchReturns /\ UNCHANGED aux
  \/ (\E publicIds \in BulkBodies : BulkDelete(publicIds)) /\ UNCHANGED aux
  \/ DeleteResourcesReturns /\ UNCHANGED aux
  \/ (\E query \in ListQueries : ListImages(query)) /\ UNCHANGED aux
  \/ ListReturns /\ UNCHANGED aux
  \/ GetStats /\ UNCHANGED aux
  \/ UsageReturns /\ UNCHANGED aux
  \/ GetHealth /\ UNCHANGED aux
  \/ PingReturns /\ UNCHANGED aux
  \/ (\E method \in Methods, dist \in BOOLEAN : NotFound(method, dist)) /\ UNCHANGED aux
  \/ Finish /\ UNCHANGED aux

Spec == Init /\ [][Next]_vars

\* a pending optimizer or gateway call completes, with a result or an error
Completes ==
  \/ OptimizerReturns
  \/ UploadStreamReturns
  \/ ApiResourceReturns
  \/ DestroyReturns
  \/ SearchReturns
  \/ DeleteResourcesReturns
  \/ ListReturns
  \/ UsageReturns
  \/ PingReturns

\* the request pipeline when every call that is made eventually completes
SpecLive == Spec /\ WF_vars(Completes /\ UNCHANGED aux)

(***************************************************************************)
(* The optimizer alone: optimizeImage applied to an upload of every        *)
(* accepted media type, for every behaviour of sharp on its bytes.         *)
(***************************************************************************)
InitOptimize ==
  /\ nodeEnv = "production"
  /\ store = {}
  /\ pc = "idle"
  /\ \E m \in {validMimetypes[i] : i \in 1..Len(validMimetypes)} :
       req = [NoReq EXCEPT !.op = "upload",
                           !.file = [kind |-> "single", name |-> <<"a",".","P","N","G">>,
                                     size |-> maxFileSize, mimetype |-> m,
                                     data |-> Bytes("upload")]]
  /\ calls = <<>>
  /\ buffer = NoBuffer
  /\ gwArg = NoArg
  /\ sharp \in WideSharpRuns
  /\ resp = NoResp
  /\ prev = NoPrev
  /\ credentials = ValidCredentials
  /\ proc = Listening(TRUE)
  /\ limiter = NoHits
  /\ walk = NoWalk
  /\ flight = NoFlight
  /\ ui = NoUi

\* buffer = await this.optimizeImage(file.data, file.mimetype)
Optimize ==
  /\ pc = "idle"
  /\ buffer' = optimizeImage(req.file.data, req.file.mimetype, sharp)
  /\ pc' = "optimized"
  /\ UNCHANGED <<nodeEnv, store, req, calls, gwArg, sharp, resp, prev>>

NextOptimize == Optimize /\ UNCHANGED aux

SpecOptimize == InitOptimize /\ [][NextOptimize]_vars


(***************************************************************************)
(* The start of the process: server.js from validateConfig() to            *)
(* app.listen, then the health check and unknown routes being served.      *)
(***************************************************************************)
InitStartup ==
  /\ nodeEnv \in {"development", "production"}
  /\ store = {}
  /\ pc = "idle"
  /\ req = NoReq
  /\ calls = <<>>
  /\ buffer = NoBuffer
  /\ gwArg = NoArg
  /\ sharp = NoSharp
  /\ resp = NoResp
  /\ prev = NoPrev
  /\ credentials \in Credentials
  /\ proc = Starting
  /\ limiter = NoHits
  /\ walk = NoWalk
  /\ flight = NoFlight
  /\ ui = NoUi

\* try { validateConfig() } catch { process.exit(1) }, then startServer() is called
ValidateConfig ==
  /\ proc.state = "validating"
  /\ proc' = [proc EXCEPT !.state = IF validateConfig(credentials) THEN "exited" ELSE "testing"]
  /\ UNCHANGED <<nodeEnv, store, pc, req, calls, buffer, gwArg, sharp, resp, prev,
                 credentials, limiter, walk, flight, ui>>

\* startServer: testConnection() answers; a failed connection is a warning, and
\* app.listen is called either way
TestConnectionReturns ==
  /\ proc.state = "testing"
  /\ \E outcome \in ApiPing(credentials) : proc' = Listening(testConnection(outcome))
  /\ UNCHANGED <<nodeEnv, store, pc, req, calls, buffer, gwArg, sharp, resp, prev,
                 credentials, limiter, walk, flight, ui>>

\* the process accepts connections
Serving == proc.state = "listening"

NextStartup ==
  \/ ValidateConfig
  \/ TestConnectionReturns
  \/ Serving /\ GetHealth /\ UNCHANGED aux
  \/ Serving /\ PingReturns /\ UNCHANGED aux
  \/ Serving /\ (\E method \in Methods, dist \in BOOLEAN : NotFound(method, dist)) /\ UNCHANGED aux
  \/ Serving /\ Finish /\ UNCHANGED aux

SpecStartup == InitStartup /\ [][NextStartup]_vars

(***************************************************************************)
(* The rate limiter in front of /api/: requests of two sources to the      *)
(* health check and to an unknown route.                                   *)
(***************************************************************************)
InitLimiter ==
  /\ nodeEnv \in {"development", "production"}
  /\ store = {}
  /\ pc = "idle"
  /\ req = NoReq
  /\ calls = <<>>
  /\ buffer = NoBuffer
  /\ gwArg = NoArg
  /\ sharp = NoSharp
  /\ resp = NoResp
  /\ prev = NoPrev
  /\ credentials = ValidCredentials
  /\ proc = Listening(TRUE)
  /\ limiter = NoHits
  /\ walk = NoWalk
  /\ flight = NoFlight
  /\ ui = NoUi

\* the store counts the request of a source
Hit(source) == [limiter.hits EXCEPT ![source] = @ + 1]

\* the limiter counts a request and calls next()
Admit(source) ==
  /\ limiterAdmits(Hit(source)[source])
  /\ limiter' = [hits |-> Hit(source),
                 passed |-> [limiter.passed EXCEPT ![source] = @ + 1]]
  /\ UNCHANGED <<credentials, proc, walk, flight, ui>>

\* the limiter counts a request and answers it itself
Refuse(source) ==
  /\ pc = "idle"
  /\ ~limiterAdmits(Hit(source)[source])
  /\ Hit(source)[source] <= rateLimitMax + MaxOver
  /\ limiter' = [limiter EXCEPT !.hits = Hit(source)]
  /\ Answer([NoReq EXCEPT !.op = "limited"], tooManyRequests)
  /\ prev' = NoPrev
  /\ UNCHANGED <<nodeEnv, store, credentials, proc, walk, flight, ui>>

\* the window of a source is over: its count starts again
WindowExpires(source) ==
  /\ limiter.hits[source] > 0
  /\ limiter' = [hits |-> [limiter.hits EXCEPT ![source] = 0],
                 passed |-> [limiter.passed EXCEPT ![source] = 0]]
  /\ UNCHANGED <<nodeEnv, store, pc, req, calls, buffer, gwArg, sharp, resp, prev,
                 credentials, proc, walk, flight, ui>>

NextLimiter ==
  \/ \E source \in Sources : Admit(source) /\ GetHealth
  \/ \E source \in Sources : Admit(source) /\ NotFound("POST", TRUE)
  \/ \E source \in Sources : Refuse(source)
  \/ \E source \in Sources : WindowExpires(source)
  \/ PingReturns /\ UNCHANGED aux
  \/ Finish /\ UNCHANGED aux

SpecLimiter == InitLimiter /\ [][NextLimiter]_vars

(***************************************************************************)
(* A client that lists the images page by page (App.jsx loadImages): it    *)
(* sends the nextCursor of the last response until a response has none.    *)
(* The backing set does not change.                                        *)
(***************************************************************************)
WalkMaxResults == { Undefined, <<"1">>, <<"2">>, <<"1","0","e","-","1">> }

InitList ==
  /\ nodeEnv \in {"development", "production"}
  /\ store \in SUBSET ProviderIds
  /\ pc = "idle"
  /\ req = NoReq
  /\ calls = <<>>
  /\ buffer = NoBuffer
  /\ gwArg = NoArg
  /\ sharp = NoSharp
  /\ resp = NoResp
  /\ prev = NoPrev
  /\ credentials = ValidCredentials
  /\ proc = Listening(TRUE)
  /\ limiter = NoHits
  /\ \E m \in WalkMaxResults : walk = [NoWalk EXCEPT !.maxResults = m]
  /\ flight = NoFlight
  /\ ui = NoUi

\* the client asks for the next page
LoadImages ==
  /\ ~walk.done
  /\ ListImages([maxResults |-> walk.maxResults, nextCursor |-> walk.cursor,
                 prefix |-> Undefined, tags |-> Undefined])
  /\ UNCHANGED aux

\* the ids of a page of the response
PageIds(images) == [i \in 1..Len(images) |-> images[i].publicId]

\* the client takes the page of a successful response and its nextCursor; after
\* a failed request it keeps what it has
TurnPage ==
  /\ req.op = "list"
  /\ Finish
  /\ walk' = IF resp.status = 200
             THEN [walk EXCEPT !.images = @ \o PageIds(resp.body.data.images),
                               !.cursor = resp.body.data.nextCursor,
                               !.largest = Max(@, Len(resp.body.data.images)),
                               !.done = resp.body.data.nextCursor = Absent]
             ELSE walk
  /\ UNCHANGED <<credentials, proc, limiter, flight, ui>>

NextList ==
  \/ LoadImages
  \/ ListReturns /\ UNCHANGED aux
  \/ TurnPage

SpecList == InitList /\ [][NextList]_vars

(***************************************************************************)
(* The gallery of the frontend (App.jsx, ImageGallery.jsx): the App        *)
(* component's state under its events. The answers of the backend to the   *)
(* list and delete requests are inputs.                                    *)
(***************************************************************************)
MaxImages == 3

GalleryIds == {"a", "b"}

\* result.data.images of a list response
Pages == { <<>>, <<"a">>, <<"a", "b">> }

\* result.data.nextCursor of a list response: undefined on the last page
ResponseCursors == {Absent, "c1", "c2"}

\* !!x
Truthy(x) == x # Null /\ ~Falsy(x)

InitGallery ==
  /\ nodeEnv \in {"development", "production"}
  /\ store = {}
  /\ pc = "idle"
  /\ req = NoReq
  /\ calls = <<>>
  /\ buffer = NoBuffer
  /\ gwArg = NoArg
  /\ sharp = NoSharp
  /\ resp = NoResp
  /\ prev = NoPrev
  /\ credentials = ValidCredentials
  /\ proc = Listening(TRUE)
  /\ limiter = NoHits
  /\ walk = NoWalk
  /\ flight = NoFlight
  /\ ui = NoUi

\* what the gallery leaves alone
backend == <<nodeEnv, store, pc, req, calls, buffer, gwArg, sharp, resp, prev,
             credentials, proc, limiter, walk, flight>>

\* loadImages up to its await: setLoading(true) and the list request
loadImages(u, cursor) ==
  [u EXCEPT !.loading = TRUE, !.request = [inFlight |-> TRUE, cursor |-> cursor]]

\* useEffect(() => { loadImages(); }, [])
Mount ==
  /\ ~ui.mounted
  /\ ui' = [loadImages(ui, Null) EXCEPT !.mounted = TRUE]
  /\ UNCHANGED backend

\* loadImages after its await resolved: the page replaces the images or is
\* appended to them, nextCursor and hasMore are set from the response
ListResolves ==
  /\ ui.request.inFlight
  /\ \E images \in Pages, nextCursor \in ResponseCursors :
       /\ Truthy(ui.request.cursor) => Len(ui.images) + Len(images) <= MaxImages
       /\ ui' = [ui EXCEPT !.images = IF Truthy(ui.request.cursor) THEN @ \o images ELSE images,
                           !.nextCursor = nextCursor,
                           !.hasMore = Truthy(nextCursor),
                           !.loading = FALSE,
                           !.request = NoRequest]
  /\ UNCHANGED backend

\* loadImages after its await rejected: a toast, then setLoading(false)
ListRejects ==
  /\ ui.request.inFlight
  /\ ui' = [ui EXCEPT !.loading = FALSE, !.request = NoRequest]
  /\ UNCHANGED backend

\* ImageGallery renders its header and grid when there are images, or when
\* nothing is loading (then the empty card, without controls)
GalleryRendered == ui.mounted /\ ui.images # <<>>

\* the Load More button is rendered and enabled
LoadMoreOffered == GalleryRendered /\ ui.hasMore /\ ~ui.loading

\* the Refresh button: handleRefresh
HandleRefresh ==
  /\ GalleryRendered
  /\ ~ui.loading
  /\ ui' = loadImages(ui, Null)
  /\ UNCHANGED backend

\* the Load More button: handleLoadMore
HandleLoadMore ==
  /\ LoadMoreOffered
  /\ IF Truthy(ui.nextCursor) /\ ~ui.loading
     THEN ui' = loadImages(ui, ui.nextCursor)
     ELSE ui' = ui
  /\ UNCHANGED backend

\* ImageUpload reports an uploaded image: handleUploadSuccess
HandleUploadSuccess(newImage) ==
  /\ ui.mounted
  /\ Len(ui.images) < MaxImages
  /\ ui' = [ui EXCEPT !.images = <<newImage>> \o @]
  /\ UNCHANGED backend

\* the Delete button of an image, confirmed: handleDeleteImage up to its await
HandleDeleteImage(publicId) ==
  /\ GalleryRendered
  /\ \E i \in 1..Len(ui.images) : ui.images[i] = publicId
  /\ ui' = [ui EXCEPT !.deleting = @ \cup {publicId}]
  /\ UNCHANGED backend

\* handleDeleteImage after its await: the image is filtered out, or a toast
DeleteSettles(publicId, resolved) ==
  /\ publicId \in ui.deleting
  /\ ui' = [ui EXCEPT !.deleting = @ \ {publicId},
                      !.images = IF resolved
                                 THEN SelectSeq(@, LAMBDA img : img # publicId)
                                 ELSE @]
  /\ UNCHANGED backend

NextGallery ==
  \/ Mount
  \/ ListResolves
  \/ ListRejects
  \/ HandleRefresh
  \/ HandleLoadMore
  \/ \E newImage \in GalleryIds : HandleUploadSuccess(newImage)
  \/ \E publicId \in GalleryIds : HandleDeleteImage(publicId)
  \/ \E publicId \in GalleryIds, resolved \in BOOLEAN : DeleteSettles(publicId, resolved)

SpecGallery == InitGallery /\ [][NextGallery]_vars

(***************************************************************************)
(* Requests handled at the same time: every slot holds one request for     *)
(* /api/images/:publicId, from the limiter to the response. The limiter's  *)
(* store and the provider are what the slots have in common.               *)
(***************************************************************************)
ConcurrentOps == {"get", "delete"}

ConcurrentIds == ProviderIds \cup { <<"5","%">> }

ConcurrentSources == {"ip1"}

\* a publicId kept where every running handler writes and reads it
handlerPublicIdShared(fl, slot) ==
  IF \E o \in Slots \ {slot} : fl[o].pc = "gateway"
  THEN fl[CHOOSE o \in Slots \ {slot} : fl[o].pc = "gateway"].publicId
  ELSE fl[slot].publicId

\* const publicId of the handler: every call of the handler has its own
handlerPublicId(fl, slot) == fl[slot].publicId

InitConcurrent ==
  /\ nodeEnv \in {"development", "production"}
  /\ store = ProviderIds
  /\ pc = "idle"
  /\ req = NoReq
  /\ calls = <<>>
  /\ buffer = NoBuffer
  /\ gwArg = NoArg
  /\ sharp = NoSharp
  /\ resp = NoResp
  /\ prev = NoPrev
  /\ credentials = ValidCredentials
  /\ proc = Listening(TRUE)
  /\ limiter = NoHits
  /\ walk = NoWalk
  /\ flight = NoFlight
  /\ ui = NoUi

\* what the slots leave alone
single == <<nodeEnv, pc, req, calls, buffer, gwArg, sharp, resp, prev,
            credentials, proc, walk, ui>>

\* the slot's request is answered
Sent(slot, source, r, answer) ==
  flight' = [flight EXCEPT ![slot] = [NoSlot EXCEPT !.pc = "responded", !.source = source,
                                                    !.req = r, !.resp = answer]]

\* a request arrives and the limiter hands it on: validatePublicId, then the
\* handler up to its await
Arrives(slot, source, op, clientId) ==
  /\ flight[slot].pc = "idle"
  /\ limiterAdmits(Hit(source)[source])
  /\ limiter' = [hits |-> Hit(source),
                 passed |-> [limiter.passed EXCEPT ![source] = @ + 1]]
  /\ LET r == [NoReq EXCEPT !.op = op, !.clientId = clientId, !.id = RouteParam(clientId)]
         publicId == decodeURIComponent(r.id)
     IN IF validatePublicId(r).type # "next" THEN Sent(slot, source, r, validatePublicId(r))
        ELSE IF ~publicId.ok
        THEN Sent(slot, source, r, errorHandler(Error("URIError", "URI malformed"), nodeEnv))
        ELSE flight' = [flight EXCEPT ![slot] = [NoSlot EXCEPT !.pc = "gateway",
                                                              !.source = source, !.req = r,
                                                              !.publicId = publicId.value]]
  /\ UNCHANGED <<store, single>>

\* a request arrives and the limiter answers it itself
Refused(slot, source) ==
  /\ flight[slot].pc = "idle"
  /\ ~limiterAdmits(Hit(source)[source])
  /\ Hit(source)[source] <= rateLimitMax + MaxOver
  /\ limiter' = [limiter EXCEPT !.hits = Hit(source)]
  /\ \E op \in ConcurrentOps, clientId \in ConcurrentIds :
       Sent(slot, source,
            [NoReq EXCEPT !.op = op, !.clientId = clientId, !.id = RouteParam(clientId)],
            tooManyRequests)
  /\ UNCHANGED <<store, single>>

\* the provider answers the call of a slot and its handler responds
Returns(slot) ==
  /\ flight[slot].pc = "gateway"
  /\ LET publicId == handlerPublicId(flight, slot)
         sl == flight[slot]
     IN \E outcome \in GatewayFailures \cup
                        {IF sl.req.op = "get" THEN ApiResource(sl.publicId, store)
                                              ELSE UploaderDestroy(sl.publicId, store)} :
          /\ store' = IF sl.req.op = "delete" /\ ~outcome.rejected
                      THEN store \ {sl.publicId} ELSE store
          /\ flight' = [flight EXCEPT ![slot] =
                          [sl EXCEPT !.pc = "responded",
                                     !.answer = outcome,
                                     !.others = {o \in Slots \ {slot} : flight[o].pc = "gateway"},
                                     !.resp = asyncHandler(200,
                                                IF sl.req.op = "get" THEN getImage(outcome)
                                                ELSE deleteImage(publicId, outcome),
                                                nodeEnv)]]
  /\ UNCHANGED <<limiter, single>>

\* the response has left: the slot is free again
Leaves(slot) ==
  /\ flight[slot].pc = "responded"
  /\ flight' = [flight EXCEPT ![slot] = NoSlot]
  /\ UNCHANGED <<store, limiter, single>>

NextConcurrent ==
  \/ \E slot \in Slots, source \in ConcurrentSources, op \in ConcurrentOps,
        clientId \in ConcurrentIds : Arrives(slot, source, op, clientId)
  \/ \E slot \in Slots, source \in ConcurrentSources : Refused(slot, source)
  \/ \E slot \in Slots : Returns(slot)
  \/ \E slot \in Slots : Leaves(slot)
  \/ \E source \in ConcurrentSources : WindowExpires(source)

SpecConcurrent == InitConcurrent /\ [][NextConcurrent]_vars

(***************************************************************************)
(* Properties.                                                             *)
(***************************************************************************)
Responded == pc = "responded"

\* no optimizer and no gateway call was made for the request in hand
NoCalls == calls = <<>>

\* the call log has a call of fn
Called(fn) == \E i \in 1..Len(calls) : calls[i].fn = fn

\* the gateway call of the request in hand, once it has been made
GatewayCall == calls[Len(calls)]

SingleUpload == req.op = "upload" /\ req.file.kind = "single"

\* the file-name extension as the validator takes it
FileExtension == ToLowerCase(SplitPop(req.file.name))

\* C1: an upload whose file is larger than the configured maximum is answered
\* with 400, and neither the optimizer nor the gateway is called.
C1_OversizeIs400 ==
  (Responded /\ SingleUpload /\ req.file.size > maxFileSize)
    => (resp.status = 400 /\ NoCalls)

\* C2: an upload whose lower-cased file-name extension is not in the allow-list
\* is answered with 400, and neither the optimizer nor the gateway is called.
C2_BadExtensionIs400 ==
  (Responded /\ SingleUpload /\ ~Includes(allowedFormats, FileExtension))
    => (resp.status = 400 /\ NoCalls)

FiveMimetypes == {"image/jpeg", "image/png", "image/gif", "image/webp", "image/svg+xml"}

SixMimetypes == FiveMimetypes \cup {"image/jpg"}

\* C3 as stated: an upload gets past file validation only if its declared media
\* type is one of the five MIME strings; any other is rejected with 400.
C3_OnlyFiveMimetypes ==
  SingleUpload =>
    /\ ~NoCalls => req.file.mimetype \in FiveMimetypes
    /\ (Responded /\ req.file.mimetype \notin FiveMimetypes) => resp.status = 400

\* C3 amended: an upload gets past file validation only if its declared media
\* type is one of six MIME strings (the five and image/jpg); an upload declaring
\* any other type makes no optimizer or gateway call and is answered with 400 by
\* file validation, or with 413 by the upload middleware when it is oversize.
C3_OnlySixMimetypes ==
  SingleUpload =>
    /\ ~NoCalls => req.file.mimetype \in SixMimetypes
    /\ (Responded /\ req.file.mimetype \notin SixMimetypes) =>
         /\ NoCalls
         /\ resp.status = IF req.file.size > maxFileSize THEN 413 ELSE 400

\* C3 witness: an upload declaring image/jpg was accepted and stored.
C3_Witness ==
  Responded /\ SingleUpload /\ req.file.mimetype = "image/jpg" /\ resp.status = 201

\* C4: a Get for an identifier that the provider reports as not found is
\* answered with 404 and the body {success: false, error: "Image not found"}.
C4_NotFoundIs404 ==
  (Responded /\ req.op = "get" /\ ~NoCalls /\ GatewayCall.answer.rejected
     /\ GatewayCall.answer.err.error.http_code = 404)
    => (resp.status = 404 /\ resp.body = [success |-> FALSE, error |-> "Image not found"])

\* the provider answered every gateway call of the request in hand
ProviderReachable == \A i \in 1..Len(calls) : calls[i].outcome # "rejected"

\* C5: deleting the same identifier twice in a row, the provider reachable both
\* times, gives 200 with success: true both times, the second time with the
\* message for 'not found'.
C5_DeleteTwiceSucceeds ==
  (Responded /\ req.op = "delete" /\ prev.op = "delete" /\ prev.id = req.clientId
     /\ ~prev.rejected /\ ProviderReachable)
    => /\ prev.status = 200
       /\ prev.message \in {"Image deleted successfully", "Image not found"}
       /\ resp.status = 200
       /\ resp.body = [success |-> TRUE, message |-> "Image not found",
                       publicId |-> req.clientId]

\* C6: a Search whose expression is missing or empty is answered with 400 and
\* the gateway's search is never called for it.
C6_EmptySearchIs400 ==
  (req.op = "search" /\ req.query.expression \in {Absent, ""})
    => (NoCalls /\ (Responded => resp.status = 400))

\* C6 witness: a search with the empty expression was answered with 400.
C6_Witness ==
  Responded /\ req.op = "search" /\ req.query.expression = "" /\ resp.status = 400

\* every entry of the list is a string
AllStrings(runs) == \A e \in ArrayEntries(runs) : e.type = "string"

\* no identifier occurs twice in the list
NoRepeats(runs) ==
  /\ \A i \in 1..Len(runs) : runs[i].count <= 1
  /\ \A i, j \in 1..Len(runs) : runs[i].entry = runs[j].entry => i = j

\* C7 as stated: a bulk delete reaches the gateway only if publicIds is a list
\* of 1 to 100 strings without a repeated identifier.
C7_OnlyUniqueIds ==
  (req.op = "bulkDelete" /\ ~NoCalls)
    => /\ req.publicIds.kind = "array"
       /\ ArrayLength(req.publicIds.runs) \in 1..100
       /\ AllStrings(req.publicIds.runs)
       /\ NoRepeats(req.publicIds.runs)

\* C7 amended: a bulk delete reaches the gateway only if publicIds is a list of
\* 1 to 100 strings (repeated identifiers are let through); an absent or empty
\* list, a list of more than 100 entries or a non-string entry is rejected with
\* 400 and no gateway call.
C7_OneToHundredStrings ==
  req.op = "bulkDelete" =>
    /\ ~NoCalls => /\ req.publicIds.kind = "array"
                   /\ ArrayLength(req.publicIds.runs) \in 1..100
                   /\ AllStrings(req.publicIds.runs)
    /\ (Responded /\ (\/ req.publicIds.kind = "absent"
                      \/ ArrayLength(req.publicIds.runs) \notin 1..100
                      \/ ~AllStrings(req.publicIds.runs)))
         => (resp.status = 400 /\ NoCalls)

\* C7 witness: a list that repeats an identifier was handed to the gateway.
C7_Witness ==
  /\ req.op = "bulkDelete"
  /\ Called("cloudinary.api.delete_resources")
  /\ ~NoRepeats(req.publicIds.runs)
  /\ ArrayLength(req.publicIds.runs) = 100

\* C8: whenever the gateway's bulk delete returns, the response is 200 with
\* success: true and carries the provider's outcome map and partial flag as
\* they came, also when identifiers did not exist or were not all processed.
C8_PartialIsSuccess ==
  (Responded /\ req.op = "bulkDelete" /\ ~NoCalls /\ ~GatewayCall.answer.rejected)
    => /\ resp.status = 200
       /\ resp.body.success = TRUE
       /\ resp.body.data.deleted = GatewayCall.answer.result.deleted
       /\ resp.body.data.partial = GatewayCall.answer.result.partial

\* C8 witness: a partial answer with an identifier that did not exist and one
\* that was not processed was reported as a success.
C8_Witness ==
  /\ Responded /\ req.op = "bulkDelete" /\ ~NoCalls /\ ~GatewayCall.answer.rejected
  /\ GatewayCall.answer.result.partial
  /\ \E i \in DOMAIN GatewayCall.answer.result.deleted :
       GatewayCall.answer.result.deleted[i] = "not_found"
  /\ RequestedIds(req.publicIds.runs) # DOMAIN GatewayCall.answer.result.deleted
  /\ resp.status = 200

\* the optimize field is one that options validation takes as boolean false
OptimizeFlagFalse == req.body.optimize # Undefined /\ ToLowerCase(req.body.optimize) = sFalse

\* C9: for a validated upload with the optimize flag false, or with the declared
\* media type SVG, the buffer handed to the gateway is the uploaded buffer.
C9_BypassKeepsBytes ==
  (SingleUpload /\ Called("cloudinary.uploader.upload_stream")
     /\ (OptimizeFlagFalse \/ req.file.mimetype = "image/svg+xml"))
    => buffer = req.file.data

\* sharp ran for the request in hand and one of its steps failed
SharpFailed == sharp # NoSharp /\ (~sharp.metadata \/ ~sharp.toBuffer)

\* C10: when a step of the optimizer fails, the gateway upload is still called,
\* with the uploaded bytes, and the gateway's outcome alone decides the
\* response: 201 when it succeeds.
C10_OptimizerFailureIsSwallowed ==
  (SingleUpload /\ SharpFailed)
    => /\ Called("cloudinary.uploader.upload_stream")
       /\ buffer = req.file.data
       /\ Responded =>
            IF GatewayCall.answer.rejected
            THEN resp.status = 500 /\ resp.body.success = FALSE
            ELSE resp.status = 201 /\ resp.body.success = TRUE

\* C10 witness: sharp failed and the upload was answered with 201.
C10_Witness ==
  Responded /\ SingleUpload /\ SharpFailed /\ resp.status = 201

(***************************************************************************)
(* Properties of the optimizer (SpecOptimize).                             *)
(***************************************************************************)
Optimized == pc = "optimized"

\* sharp decoded the bytes and encoded the result
OptimizationSucceeded ==
  Optimized /\ req.file.mimetype # "image/svg+xml" /\ sharp.metadata /\ sharp.toBuffer

Abs(x) == IF x < 0 THEN -x ELSE x

\* the output keeps the input's aspect ratio up to less than a pixel on a side
SameAspect ==
  Abs(buffer.width * sharp.height - buffer.height * sharp.width)
    < Max(sharp.width, sharp.height)

\* C11: when optimization of a non-SVG image succeeds, an input with a side over
\* 4096 gives an output with both sides at most 4096 and the input's aspect
\* ratio within rounding, and an input with both sides at most 4096 gives an
\* output of the input's dimensions.
C11_ResizeOnlyOversize ==
  OptimizationSucceeded =>
    IF sharp.width > 4096 \/ sharp.height > 4096
    THEN buffer.width <= 4096 /\ buffer.height <= 4096 /\ SameAspect
    ELSE buffer.width = sharp.width /\ buffer.height = sharp.height

\* C11 witness: an image of 4097 x 100 came out as 4096 x 100.
C11_Witness ==
  /\ OptimizationSucceeded
  /\ <<sharp.width, sharp.height>> = <<4097, 100>>
  /\ <<buffer.width, buffer.height>> = <<4096, 100>>

\* the settings the description gives for a detected format
DescribedSettings(format) ==
  CASE format \in {"jpeg", "jpg"} -> "jpeg{quality:85,progressive:true}"
    [] format = "png" -> "png{quality:85,compressionLevel:9}"
    [] format = "webp" -> "webp{quality:85}"
    [] OTHER -> "none"

\* C12: when optimization runs, the encoder settings are those of the detected
\* format (JPEG: quality 85 progressive; PNG: quality 85, compression level 9;
\* WebP: quality 85; any other: none), whatever media type was declared; a
\* declared SVG is not touched.
C12_SettingsByDetectedFormat ==
  /\ OptimizationSucceeded =>
        buffer.out = "sharp" /\ buffer.encoder = DescribedSettings(sharp.format)
  /\ (Optimized /\ req.file.mimetype = "image/svg+xml") => buffer = req.file.data

\* C12 witness: bytes declared as image/png and detected as WebP were encoded
\* with the WebP settings.
C12_Witness ==
  /\ OptimizationSucceeded
  /\ req.file.mimetype = "image/png"
  /\ sharp.format = "webp"
  /\ buffer.encoder = "webp{quality:85}"

(***************************************************************************)
(* Properties of the request pipeline (Spec), continued.                   *)
(***************************************************************************)
\* C13: every response with a status of 400 or above has a JSON body with
\* success: false and an error message, and every response with success: true
\* has a 2xx status.
C13_ErrorBodies ==
  Responded =>
    /\ resp.status >= 400 =>
          (resp.type = "json" /\ resp.body.success = FALSE /\ "error" \in DOMAIN resp.body)
    /\ (resp.type = "json" /\ resp.body.success = TRUE) => resp.status \in 200..299

\* the answers of the validators that the route of a request runs
ValidatorAnswers(r) ==
  CASE r.op = "upload" -> {validateFileUpload(r), validateUploadOptions(r)}
    [] r.op \in {"get", "delete"} -> {validatePublicId(r)}
    [] r.op = "list" -> {validateListQuery(r)}
    [] r.op = "search" -> {validateSearchQuery(r)}
    [] r.op = "bulkDelete" -> {validateBulkDelete(r)}
    [] OTHER -> {}

\* the response in hand is a validator's own answer
RejectedByValidation ==
  Responded /\ NoCalls /\ \E answer \in ValidatorAnswers(req) : answer.type # "next" /\ resp = answer

\* C14: every request that a validator rejects is answered with status 400.
C14_ValidationIs400 == RejectedByValidation => resp.status = 400

\* the gateway call of the request in hand was rejected
GatewayFailed == Responded /\ ~NoCalls /\ GatewayCall.answer.rejected

\* C15: when the gateway call fails, the response has the body {success: false,
\* error} and the provider's HTTP status when the error carries one, 500
\* otherwise.
C15_ProviderStatusPassedThrough ==
  GatewayFailed =>
    /\ resp.type = "json" /\ resp.body.success = FALSE /\ "error" \in DOMAIN resp.body
    /\ resp.status = IF GatewayCall.answer.err.error.present
                         /\ GatewayCall.answer.err.error.http_code # 0
                      THEN GatewayCall.answer.err.error.http_code
                      ELSE 500

\* C17: a List or Search request that passes validation forwards the requested
\* maxResults (30 when none was given), a value in 1..500; a maxResults that is
\* not an integer in 1..500 is answered with 400 and nothing is forwarded.
C17_MaxResultsForwarded ==
  req.op \in {"list", "search"} =>
    /\ ~NoCalls =>
          /\ gwArg.max_results = IF req.query.maxResults = Undefined THEN 30
                                 ELSE JoiNumber(req.query.maxResults).value
          /\ gwArg.max_results \in 1..500
    /\ (Responded /\ req.query.maxResults # Undefined /\ ~JoiMaxResults(req.query.maxResults))
          => (resp.status = 400 /\ NoCalls)

\* what the usage report says of a field of a resource, 0 when it omits it
ReportedOrZero(resource, field) ==
  IF GatewayCall.answer.result[resource].present
  THEN GatewayCall.answer.result[resource][field] ELSE 0

\* C20: the usage response carries used, limit and percentage for each of
\* storage, bandwidth, transformations and credits, from the provider's report,
\* 0 for what the report omits.
C20_FourTriplets ==
  (Responded /\ req.op = "stats" /\ ~GatewayCall.answer.rejected) =>
    \A resource \in Resources :
      /\ resource \in DOMAIN resp.body.data.used
      /\ resp.body.data.used[resource] = ReportedOrZero(resource, "used")
      /\ resource \in DOMAIN resp.body.data.limit
      /\ resp.body.data.limit[resource] = ReportedOrZero(resource, "limit")
      /\ resource \in DOMAIN resp.body.data.percentage
      /\ resp.body.data.percentage[resource] = ReportedOrZero(resource, "used_percent")

(***************************************************************************)
(* Properties of the start of the process (SpecStartup).                   *)
(***************************************************************************)
\* a request has been taken in hand
ServedARequest == pc # "idle"

\* C16: the server listens, and serves a request, only if cloud name, API key
\* and API secret are all present and valid.
C16_ListensOnlyWithValidCredentials ==
  (Serving \/ ServedARequest) => credentials = ValidCredentials

(***************************************************************************)
(* Properties of the rate limiter (SpecLimiter).                           *)
(***************************************************************************)
\* C19: in one window at most 100 requests of a source are passed on to the
\* routes; a further request of that source is answered with the body
\* {success: false, error} and makes no validator, optimizer or gateway call.
C19_AtMostHundredPerWindow ==
  /\ \A source \in Sources : limiter.passed[source] <= 100
  /\ \A source \in Sources :
       limiter.hits[source] > 100 => limiter.passed[source] = 100
  /\ (Responded /\ req.op = "limited") =>
       /\ resp.status = 429
       /\ resp.body.success = FALSE /\ "error" \in DOMAIN resp.body
       /\ NoCalls

\* C19 witness: the 101st request of a source in its window was refused, the
\* hundred before it were passed on.
C19_Witness ==
  /\ Responded /\ req.op = "limited"
  /\ limiter.hits["ip1"] = 101
  /\ limiter.passed["ip1"] = 100

(***************************************************************************)
(* Properties of the paginated listing (SpecList).                         *)
(***************************************************************************)
\* the maxResults a client asks for, 30 when it names none
Requested(m) == IF m = Undefined THEN 30 ELSE JoiNumber(m).value

\* a sequence of ids holds each id of a set exactly once
ExactlyOnce(images, ids) ==
  /\ {images[i] : i \in 1..Len(images)} = ids
  /\ \A i, j \in 1..Len(images) : images[i] = images[j] => i = j

\* C18: with a static backing set, following nextCursor until a response has
\* none returns every stored image exactly once and no page longer than the
\* requested maxResults (at most 500); the client's cursor is forwarded to the
\* provider unchanged and the provider's next cursor is returned unchanged.
C18_WalkReturnsEachImageOnce ==
  /\ walk.done => /\ ExactlyOnce(walk.images, store)
                  /\ walk.largest <= Requested(walk.maxResults)
                  /\ Requested(walk.maxResults) <= 500
  /\ (req.op = "list" /\ ~NoCalls) => gwArg.next_cursor = walk.cursor
  /\ (Responded /\ req.op = "list" /\ ~NoCalls /\ ~GatewayCall.answer.rejected) =>
       resp.body.data.nextCursor = GatewayCall.answer.result.next_cursor

(***************************************************************************)
(* Properties of the request pipeline (Spec), continued.                   *)
(***************************************************************************)
\* C21: the identifier the Get and Delete handlers pass to the gateway equals the
\* identifier the client put in the URL path with encodeURIComponent.
C21_IdRoundTrip ==
  (req.op \in {"get", "delete"} /\ ~NoCalls) => gwArg.publicId = req.clientId

\* every validator of the request's route lets the request through
ValidatorsPassed == \A answer \in ValidatorAnswers(req) : answer.type = "next"

\* C22: the optimizer and the gateway are called only after every validator of
\* the route has passed, a request that a validator answers makes no call, and
\* on upload the optimizer has returned before the gateway upload starts.
C22_ValidateOptimizeStore ==
  /\ ~NoCalls => ValidatorsPassed
  /\ (Responded /\ ~ValidatorsPassed) => NoCalls
  /\ (req.op = "upload" /\ Called("optimizeImage") /\ Called("cloudinary.uploader.upload_stream")) =>
       /\ Len(calls) = 2
       /\ calls[1].fn = "optimizeImage" /\ calls[1].outcome = "resolved"
       /\ calls[2].fn = "cloudinary.uploader.upload_stream"

\* C22 witness: an upload was optimized, then stored, and answered with 201.
C22_Witness ==
  /\ Responded /\ req.op = "upload" /\ resp.status = 201
  /\ Len(calls) = 2 /\ calls[1].fn = "optimizeImage"

(***************************************************************************)
(* Properties of the request pipeline whose calls complete (SpecLive).     *)
(***************************************************************************)
\* a request is in hand
InHand == pc # "idle"

\* C23: every request that is taken in hand gets a response, provided its
\* optimizer and gateway calls complete; a response is there exactly when the
\* request has reached its terminal state, and it is not replaced by another.
C23_ExactlyOneResponse ==
  /\ InHand ~> Responded
  /\ [](Responded <=> resp # NoResp)
  /\ [][Responded => (resp' = resp \/ (pc' = "idle" /\ resp' = NoResp))]_vars

\* C23 witness: a request whose gateway call failed has its response.
C23_Witness ==
  Responded /\ ~NoCalls /\ GatewayCall.outcome = "rejected" /\ resp.status = 500

(***************************************************************************)
(* Properties of the request pipeline (Spec), continued.                   *)
(***************************************************************************)
\* the gateway calls of the request in hand
GatewayCalls == {i \in 1..Len(calls) : calls[i].fn # "optimizeImage"}

\* C24: no request makes more than one gateway call; a gateway call that fails
\* is not made again and the request is answered with an error.
C24_OneGatewayCall ==
  /\ Cardinality(GatewayCalls) <= 1
  /\ GatewayFailed => (Cardinality(GatewayCalls) = 1 /\ resp.status >= 500)

\* C24 witness: a bulk delete of two identifiers was done with one gateway call.
C24_Witness ==
  /\ Responded /\ req.op = "bulkDelete" /\ resp.status = 200
  /\ Cardinality(DOMAIN resp.body.data.deleted) = 2
  /\ Cardinality(GatewayCalls) = 1

\* the message of the earliest file check that the upload in hand fails, in the
\* order presence, size, extension, declared media type; "" when it fails none
EarliestFileFailure ==
  IF req.file.kind = "none"
  THEN "No image file provided. Please upload a file with the field name \"image\""
  ELSE IF req.file.size > maxFileSize
  THEN "File size exceeds limit. Maximum size: 10MB"
  ELSE IF ~Includes(allowedFormats, FileExtension)
  THEN "Invalid file format. Allowed formats: jpg, jpeg, png, gif, webp, svg"
  ELSE IF req.file.mimetype \notin SixMimetypes
  THEN "Invalid file type. Please upload an image file."
  ELSE ""

\* C26: an upload that fails a file check is answered with 400 and the message
\* of the earliest failing file check, whatever its options are; the options
\* decide the answer only when the file passed every file check.
C26_FirstFailureDecides ==
  (Responded /\ req.op = "upload" /\ req.file.kind # "multi") =>
    /\ EarliestFileFailure # "" =>
          resp = Json(400, [success |-> FALSE, error |-> EarliestFileFailure])
    /\ (EarliestFileFailure = "" /\ validateUploadOptions(req).type # "next") =>
          resp = validateUploadOptions(req)

\* C27: for an upload that passed validation, the optimizer runs exactly when
\* the optimize field is absent or a spelling of true; every accepted spelling
\* of false disables it.
C27_FlagDecidesOptimization ==
  (req.op = "upload" /\ ~NoCalls) => (Called("optimizeImage") <=> ~OptimizeFlagFalse)

\* the identifiers that the provider reports as deleted
ReportedDeleted ==
  {i \in DOMAIN resp.body.data.deleted : resp.body.data.deleted[i] = "deleted"}

\* C29: in a bulk-delete success response deletedCount is the number of
\* identifiers whose outcome in the deleted map is 'deleted'.
C29_DeletedCountCountsDeleted ==
  (Responded /\ req.op = "bulkDelete" /\ resp.status = 200) =>
    resp.body.data.deletedCount = Cardinality(ReportedDeleted)

\* C28: a request under /api for a path that matches no route is answered with
\* 404 and {success: false, error: "Route not found"}, whatever the method and
\* the run mode.
C28_UnknownRouteIs404 ==
  (Responded /\ req.op = "unknown") =>
    resp = Json(404, [success |-> FALSE, error |-> "Route not found"])

\* C30: in the gallery, whenever no list request is in flight, hasMore is true
\* exactly when a continuation cursor is stored, so that an offered Load More
\* control always has a cursor to send.
C30_HasMoreIffCursor ==
  /\ (ui.mounted /\ ~ui.request.inFlight) => (ui.hasMore <=> Truthy(ui.nextCursor))
  /\ LoadMoreOffered => Truthy(ui.nextCursor)

\* the response the request of a slot gets when it is the only request: the
\* pipeline of the route applied to the request and to its gateway answer
Alone(sl) ==
  LET publicId == decodeURIComponent(sl.req.id)
  IN IF validatePublicId(sl.req).type # "next" THEN validatePublicId(sl.req)
     ELSE IF ~publicId.ok THEN errorHandler(Error("URIError", "URI malformed"), nodeEnv)
     ELSE asyncHandler(200,
                       IF sl.req.op = "get" THEN getImage(sl.answer)
                       ELSE deleteImage(publicId.value, sl.answer),
                       nodeEnv)

====
